---- MODULE Spec2Model ----
(***************************************************************************)
(* Model of main.py: the sales dataset loaded once at import time into the *)
(* module-level DataFrame df, the question engine answer_question (four    *)
(* regular-expression templates tried in order, each followed by a pandas  *)
(* aggregation) and the GET /query handler handle_query.                   *)
(*                                                                         *)
(* Text is modelled as a sequence of one-character strings, so that        *)
(* re.search, re.IGNORECASE, the character classes and the == comparison   *)
(* of a capture with a column are computed character by character.         *)
(* Numbers of the sales column are exact multiples of 1/Scale.             *)
(***************************************************************************)
EXTENDS Integers, Sequences, FiniteSets, TLC

\* ------------------------------------------------------------------ bounds
\* number of /query requests that can be in flight or answered at once
MaxRequests == 2
\* largest number of records in the JSON source
MaxRows == 2
\* sales values are multiples of 1/Scale (Scale = 4: quarters, exact in float64)
Scale == 4

\* ------------------------------------------------------------- characters
Uppers == <<"A","B","C","D","E","F","G","H","I","J","K","L","M","N","O","P","Q","R","S","T","U","V","W","X","Y","Z">>
Lowers == <<"a","b","c","d","e","f","g","h","i","j","k","l","m","n","o","p","q","r","s","t","u","v","w","x","y","z">>
Digits == <<"0","1","2","3","4","5","6","7","8","9">>

SeqRange(s) == {s[i] : i \in 1..Len(s)}

\* \w of the re module, restricted to ASCII
DigitSet == SeqRange(Digits)
WordChars == SeqRange(Uppers) \cup SeqRange(Lowers) \cup DigitSet \cup {"_"}
\* \s of the re module (space and tab of it)
SpaceChars == {" ", "\t"}
\* the class [\w\s]
WordSpaceChars == WordChars \cup SpaceChars
\* the class [\w\s.'-]
RepChars == WordChars \cup SpaceChars \cup {".", "'", "-"}

UpperSet == SeqRange(Uppers)
LowerSet == SeqRange(Lowers)
ToLower == [c \in UpperSet |-> Lowers[CHOOSE i \in 1..26 : Uppers[i] = c]]
ToUpper == [c \in LowerSet |-> Uppers[CHOOSE i \in 1..26 : Lowers[i] = c]]
\* str.lower() of one character
LowerChar(c) == IF c \in UpperSet THEN ToLower[c] ELSE c
\* str.upper() of one character
UpperChar(c) == IF c \in LowerSet THEN ToUpper[c] ELSE c
LowerStr(s) == [i \in 1..Len(s) |-> LowerChar(s[i])]
UpperStr(s) == [i \in 1..Len(s) |-> UpperChar(s[i])]

\* a literal character of a pattern against a character of the text, case-sensitively
LitEqCaseSensitive(p, c) == p = c
\* a literal character of a pattern against a character of the text under re.IGNORECASE
LitEq(p, c) == LowerChar(p) = LowerChar(c)

\* --------------------------------------------------- the literals of the code
Lit1Pre == <<"W","h","a","t"," ","i","s"," ","t","h","e"," ","t","o","t","a","l"," ","s","a","l","e","s"," ","o","f"," ">>
Lit2Pre == <<"H","o","w"," ","m","a","n","y"," ","s","a","l","e","s"," ","r","e","p","s"," ","a","r","e"," ","t","h","e","r","e"," ","i","n"," ">>
Lit3Pre == <<"W","h","a","t"," ","i","s"," ","t","h","e"," ","a","v","e","r","a","g","e"," ","s","a","l","e","s"," ","f","o","r"," ">>
Lit4Pre == <<"O","n"," ","w","h","a","t"," ","d","a","t","e"," ","d","i","d"," ">>
Lit4Mid == <<" ","m","a","k","e"," ","t","h","e"," ","h","i","g","h","e","s","t"," ","s","a","l","e"," ","i","n"," ">>
LitIn == <<" ","i","n"," ">>
LitQ == <<"?">>
NOT_UNDERSTOOD == <<"S","o","r","r","y",","," ","I"," ","c","a","n","'","t"," ","a","n","s","w","e","r"," ","t","h","a","t"," ","q","u","e","s","t","i","o","n",".">>
NO_SALES_DATA == <<"N","o"," ","s","a","l","e","s"," ","d","a","t","a"," ","f","o","u","n","d"," ","f","o","r"," ","t","h","i","s"," ","r","e","p"," ","i","n"," ","t","h","i","s"," ","c","i","t","y",".">>
NOT_LOADED == <<"E","r","r","o","r",":"," ","D","a","t","a","s","e","t"," ","n","o","t"," ","l","o","a","d","e","d",".">>

\* ------------------------------------------------------------ the patterns
\* each pattern of answer_question is  pre (c1+) mid (c2+) \?
Pattern1 == [pre |-> Lit1Pre, c1 |-> WordChars, mid |-> LitIn, c2 |-> WordChars, post |-> LitQ]
Pattern3 == [pre |-> Lit3Pre, c1 |-> WordChars, mid |-> LitIn, c2 |-> WordSpaceChars, post |-> LitQ]
\* template 4 with a city of word characters only
Pattern4WordCity == [pre |-> Lit4Pre, c1 |-> RepChars, mid |-> Lit4Mid, c2 |-> WordChars, post |-> LitQ]
Pattern4 == [pre |-> Lit4Pre, c1 |-> RepChars, mid |-> Lit4Mid, c2 |-> WordSpaceChars, post |-> LitQ]
\* pattern 2 has one group:  pre (c+) \?
Pattern2 == [pre |-> Lit2Pre, c1 |-> WordSpaceChars, post |-> LitQ]

\* ------------------------------------------------------------- re.search
NoMatch == <<>>

Min(S) == CHOOSE x \in S : \A y \in S : x <= y
Max(S) == CHOOSE x \in S : \A y \in S : x >= y
SubStr(s, a, b) == [i \in 1..(b - a + 1) |-> s[a + i - 1]]

\* the literal lit occurs in q at position i
LitAt(lit, q, i) == /\ i >= 1
                    /\ i + Len(lit) - 1 <= Len(q)
                    /\ \A j \in 1..Len(lit) : LitEq(lit[j], q[i + j - 1])

RECURSIVE RunEnd(_, _, _)
\* last position of the longest run of characters of cls that starts at a (a - 1: no run)
RunEnd(cls, q, a) == IF a <= Len(q) /\ q[a] \in cls THEN RunEnd(cls, q, a + 1) ELSE a - 1

\* ends e of a group (c+) starting at a such that lit follows at e + 1
GroupEnds(cls, q, a, lit) == {e \in a..RunEnd(cls, q, a) : LitAt(lit, q, e + 1)}

\* two-group match anchored at i: the groups, or NoMatch.  Backtracking tries the
\* longest first group first, then the longest second group.
MatchAt2(pat, q, i) ==
  IF ~LitAt(pat.pre, q, i) THEN NoMatch
  ELSE LET a == i + Len(pat.pre)
           ok(e1) == GroupEnds(pat.c2, q, e1 + 1 + Len(pat.mid), pat.post) # {}
           E1 == {e1 \in GroupEnds(pat.c1, q, a, pat.mid) : ok(e1)}
       IN IF E1 = {} THEN NoMatch
          ELSE LET e1 == Max(E1)
                   b == e1 + 1 + Len(pat.mid)
                   e2 == Max(GroupEnds(pat.c2, q, b, pat.post))
               IN <<SubStr(q, a, e1), SubStr(q, b, e2)>>

\* one-group match anchored at i
MatchAt1(pat, q, i) ==
  IF ~LitAt(pat.pre, q, i) THEN NoMatch
  ELSE LET a == i + Len(pat.pre)
           E == GroupEnds(pat.c1, q, a, pat.post)
       IN IF E = {} THEN NoMatch ELSE <<SubStr(q, a, Max(E))>>

\* re.search: the match at the leftmost position that has one
Search2(pat, q) ==
  LET S == {i \in 1..Len(q) : MatchAt2(pat, q, i) # NoMatch}
  IN IF S = {} THEN NoMatch ELSE MatchAt2(pat, q, Min(S))

Search1(pat, q) ==
  LET S == {i \in 1..Len(q) : MatchAt1(pat, q, i) # NoMatch}
  IN IF S = {} THEN NoMatch ELSE MatchAt1(pat, q, Min(S))

\* ------------------------------------------------------------ the answers
\* the value of the "answer" field of the response: a JSON integer, a JSON
\* number given in hundredths, a JSON string, or no response body at all
\* (the handler raised: 500 Internal Server Error)
IntAnswer(n) == [tag |-> "int", num |-> n, text |-> <<>>]
FloatAnswer(h) == [tag |-> "float", num |-> h, text |-> <<>>]
StrAnswer(t) == [tag |-> "str", num |-> 0, text |-> t]
Fault == [tag |-> "fault", num |-> 0, text |-> <<>>]


email_address == "22f3003185@ds.study.iitm.ac.in"

\* ------------------------------------------------- coercion of the columns
RECURSIVE DigitsValue(_)
\* value of a sequence of decimal digits
DigitsValue(s) ==
  IF s = <<>> THEN 0
  ELSE DigitsValue(SubStr(s, 1, Len(s) - 1)) * 10 + ((CHOOSE i \in 1..10 : Digits[i] = s[Len(s)]) - 1)

IsDigits(s) == s # <<>> /\ \A i \in 1..Len(s) : s[i] \in DigitSet

\* pd.to_numeric of one value of the sales column: a JSON number is kept, a JSON
\* string is parsed as a signed integer numeral, anything else raises ValueError
to_numeric(v) ==
  IF v.kind = "num" THEN [ok |-> TRUE, units |-> v.units]
  ELSE IF IsDigits(v.text) THEN [ok |-> TRUE, units |-> DigitsValue(v.text) * Scale]
  ELSE IF v.text # <<>> /\ v.text[1] = "-" /\ IsDigits(Tail(v.text))
       THEN [ok |-> TRUE, units |-> (0 - DigitsValue(Tail(v.text))) * Scale]
  ELSE [ok |-> FALSE, units |-> 0]

IsLeap(y) == (y % 4 = 0 /\ y % 100 # 0) \/ y % 400 = 0
DaysIn(y, m) == IF m = 2 THEN (IF IsLeap(y) THEN 29 ELSE 28)
                ELSE IF m \in {4, 6, 9, 11} THEN 30 ELSE 31

\* pd.to_datetime of one value of the date column: YYYY-MM-DD naming a day of the
\* calendar is parsed, anything else raises
to_datetime(s) ==
  IF /\ Len(s) = 10
     /\ s[5] = "-" /\ s[8] = "-"
     /\ IsDigits(SubStr(s, 1, 4)) /\ IsDigits(SubStr(s, 6, 7)) /\ IsDigits(SubStr(s, 9, 10))
  THEN LET y == DigitsValue(SubStr(s, 1, 4))
           m == DigitsValue(SubStr(s, 6, 7))
           d == DigitsValue(SubStr(s, 9, 10))
       IN IF m \in 1..12 /\ d >= 1 /\ d <= DaysIn(y, m)
          THEN [ok |-> TRUE, year |-> y, month |-> m, day |-> d]
          ELSE [ok |-> FALSE, year |-> 0, month |-> 0, day |-> 0]
  ELSE [ok |-> FALSE, year |-> 0, month |-> 0, day |-> 0]

RECURSIVE ZeroPad(_, _)
\* the decimal numeral of n >= 0, zero-padded to w digits
ZeroPad(n, w) == IF w = 0 THEN <<>> ELSE Append(ZeroPad(n \div 10, w - 1), Digits[(n % 10) + 1])

\* Timestamp.strftime('%Y-%m-%d')
strftime(t) == ZeroPad(t.year, 4) \o <<"-">> \o ZeroPad(t.month, 2) \o <<"-">> \o ZeroPad(t.day, 2)

\* ------------------------------------------------------- the JSON source
Widget == <<"W","i","d","g","e","t">>
widget == <<"w","i","d","g","e","t">>
Gadget == <<"G","a","d","g","e","t">>
Boston == <<"B","o","s","t","o","n">>
NewYork == <<"N","e","w"," ","Y","o","r","k">>
East == <<"E","a","s","t">>
NorthWest == <<"N","o","r","t","h"," ","W","e","s","t">>
JaneDoe == <<"J","a","n","e"," ","D","o","e">>
ONeil == <<"O","'","N","e","i","l","-","S","m","i","t","h"," ","J","r",".">>

Num(u) == [kind |-> "num", units |-> u, text |-> <<>>]
NumStr(t) == [kind |-> "str", units |-> 0, text |-> t]

\* the records a source file is made of
Rec100 == [product |-> Widget, city |-> Boston, region |-> East, rep |-> JaneDoe,
           sales |-> Num(100 * Scale), date |-> <<"2","0","2","4","-","0","1","-","0","5">>]
Rec250 == [product |-> Widget, city |-> Boston, region |-> East, rep |-> JaneDoe,
           sales |-> Num(250 * Scale), date |-> <<"2","0","2","4","-","0","2","-","1","0">>]
Rec250Str == [product |-> Widget, city |-> Boston, region |-> East, rep |-> JaneDoe,
              sales |-> NumStr(<<"2","5","0">>), date |-> <<"2","0","2","4","-","0","3","-","1","5">>]
RecFrac == [product |-> Gadget, city |-> NewYork, region |-> NorthWest, rep |-> ONeil,
            sales |-> Num(2 * Scale - 1), date |-> <<"2","0","2","3","-","1","2","-","3","1">>]
RecNeg == [product |-> Widget, city |-> Boston, region |-> East, rep |-> JaneDoe,
           sales |-> Num(1 - 2 * Scale), date |-> <<"2","0","2","4","-","0","4","-","2","0">>]
RecBadSales == [product |-> Widget, city |-> Boston, region |-> East, rep |-> JaneDoe,
                sales |-> NumStr(<<"a","b","c">>), date |-> <<"2","0","2","4","-","0","1","-","0","5">>]
RecBadDate == [product |-> Gadget, city |-> Boston, region |-> East, rep |-> ONeil,
               sales |-> Num(3 * Scale), date |-> <<"n","o","t"," ","a"," ","d","a","t","e">>]
RecordPool == {Rec100, Rec250, Rec250Str, RecFrac, RecNeg, RecBadSales, RecBadDate}

SeqsUpTo(S, n) == UNION {[1..k -> S] : k \in 0..n}

\* the file q-fastapi-llm-query.json as the loader finds it
Sources ==
  {[exists |-> FALSE, readable |-> FALSE, wellformed |-> FALSE, records |-> <<>>],
   [exists |-> TRUE, readable |-> FALSE, wellformed |-> FALSE, records |-> <<>>],
   [exists |-> TRUE, readable |-> TRUE, wellformed |-> FALSE, records |-> <<>>]}
  \cup {[exists |-> TRUE, readable |-> TRUE, wellformed |-> TRUE, records |-> rs] :
          rs \in SeqsUpTo(RecordPool, MaxRows)}

\* ------------------------------------------------------------ data loading
\* the try block of the module: the exception it raises ("none" if it completes)
\* and the rows of df it builds
LoadOutcome(src) ==
  LET rs == src.records
      row(i) == [product |-> rs[i].product, city |-> rs[i].city, region |-> rs[i].region,
                 rep |-> rs[i].rep, sales |-> to_numeric(rs[i].sales).units,
                 date |-> to_datetime(rs[i].date)]
  IN IF ~src.exists THEN [raised |-> "FileNotFoundError", rows |-> <<>>]
     ELSE IF ~src.readable THEN [raised |-> "PermissionError", rows |-> <<>>]
     ELSE IF ~src.wellformed THEN [raised |-> "JSONDecodeError", rows |-> <<>>]
     ELSE IF rs = <<>> THEN [raised |-> "KeyError", rows |-> <<>>]
     ELSE IF \E i \in 1..Len(rs) : ~to_numeric(rs[i].sales).ok THEN [raised |-> "ValueError", rows |-> <<>>]
     ELSE IF \E i \in 1..Len(rs) : ~to_datetime(rs[i].date).ok THEN [raised |-> "DateParseError", rows |-> <<>>]
     ELSE [raised |-> "none", rows |-> [i \in 1..Len(rs) |-> row(i)]]

\* --------------------------------------------------- the pandas operations
\* the comparison of a column value with a capture, ignoring letter case
FieldEqIgnoreCase(field, capture) == LowerStr(field) = LowerStr(capture)
\* df['product'] == product: equality of two Python strings
FieldEq(field, capture) == field = capture

RECURSIVE SumSales(_)
\* Series.sum() of the sales of the rows
SumSales(rows) == IF rows = <<>> THEN 0 ELSE rows[1].sales + SumSales(Tail(rows))

\* int(x), x = units/Scale, rounding to the nearest integer
IntRound(units) == (2 * units + Scale) \div (2 * Scale)
\* int(x), x = units/Scale: truncation toward zero
IntTrunc(units) == IF units >= 0 THEN units \div Scale ELSE 0 - ((0 - units) \div Scale)

\* Series.nunique() of the rep of the rows
NUnique(rows) == Cardinality({rows[i].rep : i \in 1..Len(rows)})

NaN == [nan |-> TRUE, num |-> 0, den |-> 1]
\* Series.mean() of the sales of the rows: NaN for no rows
Mean(rows) == IF rows = <<>> THEN NaN
              ELSE [nan |-> FALSE, num |-> SumSales(rows), den |-> Scale * Len(rows)]

\* round(x, 2) in hundredths, x = num/den: nearest, ties to the even hundredth
Round2(x) ==
  LET n == 100 * x.num
      f == n \div x.den
      r == n % x.den
  IN IF 2 * r > x.den THEN f + 1
     ELSE IF 2 * r < x.den THEN f
     ELSE IF f % 2 = 0 THEN f ELSE f + 1

\* Series.idxmax() picking the last row that has the maximum
IdxMaxLast(rows) ==
  IF rows = <<>> THEN 0
  ELSE Max({i \in 1..Len(rows) : \A j \in 1..Len(rows) : rows[j].sales <= rows[i].sales})
\* Series.idxmax() over the rows: the first row that has the maximum; raises
\* ValueError (0) for no rows
IdxMax(rows) ==
  IF rows = <<>> THEN 0
  ELSE Min({i \in 1..Len(rows) : \A j \in 1..Len(rows) : rows[j].sales <= rows[i].sales})

\* ------------------------------------------------------ answer_question
\* pattern 1: int(df[(product == ..) & (city == ..)]['sales'].sum())
TotalSales(d, product, city) ==
  LET Test(row) == FieldEq(row.product, product) /\ FieldEq(row.city, city)
  IN IntAnswer(IntTrunc(SumSales(SelectSeq(d, Test))))

\* pattern 2: int(df[region == ..]['rep'].nunique())
RepCount(d, region) ==
  LET Test(row) == FieldEq(row.region, region)
  IN IntAnswer(NUnique(SelectSeq(d, Test)))

\* pattern 3: round(mean, 2) if not pd.isna(mean) else 0
AverageSales(d, product, region) ==
  LET Test(row) == FieldEq(row.product, product) /\ FieldEq(row.region, region)
      result == Mean(SelectSeq(d, Test))
  IN IF ~result.nan THEN FloatAnswer(Round2(result)) ELSE IntAnswer(0)

\* pattern 4 without the test of subset.empty: idxmax raises on no rows
HighestSaleDateUnguarded(d, rep, city) ==
  LET Test(row) == FieldEq(row.rep, rep) /\ FieldEq(row.city, city)
      subset == SelectSeq(d, Test)
  IN IF IdxMax(subset) = 0 THEN Fault ELSE StrAnswer(strftime(subset[IdxMax(subset)].date))
\* pattern 4: the date of subset.loc[subset['sales'].idxmax()], or the message
HighestSaleDate(d, rep, city) ==
  LET Test(row) == FieldEq(row.rep, rep) /\ FieldEq(row.city, city)
      subset == SelectSeq(d, Test)
  IN IF subset # <<>>
     THEN StrAnswer(strftime(subset[IdxMax(subset)].date))
     ELSE StrAnswer(NO_SALES_DATA)

Outcome(tr, k, g, a) == [tried |-> tr, template |-> k, groups |-> g, answer |-> a]

\* answer_question trying pattern 2 before pattern 1
answer_question_2_first(question, d) ==
  LET m1 == Search2(Pattern1, question)
      m2 == Search1(Pattern2, question)
      m3 == Search2(Pattern3, question)
      m4 == Search2(Pattern4, question)
  IN IF m2 # NoMatch THEN Outcome(<<2>>, 2, m2, RepCount(d, m2[1]))
     ELSE IF m1 # NoMatch THEN Outcome(<<2, 1>>, 1, m1, TotalSales(d, m1[1], m1[2]))
     ELSE IF m3 # NoMatch THEN Outcome(<<2, 1, 3>>, 3, m3, AverageSales(d, m3[1], m3[2]))
     ELSE IF m4 # NoMatch THEN Outcome(<<2, 1, 3, 4>>, 4, m4, HighestSaleDate(d, m4[1], m4[2]))
     ELSE Outcome(<<2, 1, 3, 4>>, 0, <<>>, StrAnswer(NOT_UNDERSTOOD))
\* answer_question(question) reading the rows d of df: the patterns searched, in
\* the order of the searches, the pattern that matched (0: none), its groups and
\* the value returned
answer_question(question, d) ==
  LET m1 == Search2(Pattern1, question)
      m2 == Search1(Pattern2, question)
      m3 == Search2(Pattern3, question)
      m4 == Search2(Pattern4, question)
  IN IF m1 # NoMatch THEN Outcome(<<1>>, 1, m1, TotalSales(d, m1[1], m1[2]))
     ELSE IF m2 # NoMatch THEN Outcome(<<1, 2>>, 2, m2, RepCount(d, m2[1]))
     ELSE IF m3 # NoMatch THEN Outcome(<<1, 2, 3>>, 3, m3, AverageSales(d, m3[1], m3[2]))
     ELSE IF m4 # NoMatch THEN Outcome(<<1, 2, 3, 4>>, 4, m4, HighestSaleDate(d, m4[1], m4[2]))
     ELSE Outcome(<<1, 2, 3, 4>>, 0, <<>>, StrAnswer(NOT_UNDERSTOOD))

\* the body of handle_query without the test of df.empty
query_result_unchecked(q, d) == answer_question(q, d)
\* the body of handle_query: the answer for q when df holds the rows d
query_result(q, d) ==
  IF d = <<>> THEN Outcome(<<>>, 0, <<>>, StrAnswer(NOT_LOADED))
  ELSE answer_question(q, d)

\* ------------------------------------------------------------ the questions
Cases == {"as written", "upper", "lower"}
\* the literal words of a pattern in one of the letter cases
Case(v, s) == IF v = "upper" THEN UpperStr(s) ELSE IF v = "lower" THEN LowerStr(s) ELSE s

Question1(v, product, city) == Case(v, Lit1Pre) \o product \o Case(v, LitIn) \o city \o LitQ
Question2(v, region) == Case(v, Lit2Pre) \o region \o LitQ
Question3(v, product, region) == Case(v, Lit3Pre) \o product \o Case(v, LitIn) \o region \o LitQ
Question4(v, rep, city) == Case(v, Lit4Pre) \o rep \o Case(v, Lit4Mid) \o city \o LitQ

Weather == <<"W","h","a","t"," ","i","s"," ","t","h","e"," ","w","e","a","t","h","e","r"," ","t","o","d","a","y","?">>
Hey == <<"H","e","y","!"," ">>
Space == <<" ">>

Questions1 == {Question1(v, p, Boston) : v \in Cases, p \in {Widget, widget, Gadget}}
                \cup {Question1("as written", Gadget, NewYork), Question1("as written", Widget, LowerStr(Boston))}
Questions2 == {Question2(v, g) : v \in Cases, g \in {East, NorthWest}}
                \cup {Question2("as written", LowerStr(East))}
Questions3 == {Question3(v, Widget, East) : v \in Cases}
                \cup {Question3("as written", Gadget, NorthWest), Question3("as written", widget, East)}
Questions4 == {Question4(v, JaneDoe, Boston) : v \in Cases}
                \cup {Question4("as written", ONeil, NewYork), Question4("as written", ONeil, Boston),
                      Question4("as written", LowerStr(JaneDoe), Boston),
                      Question4("as written", JaneDoe, LowerStr(Boston))}
\* questions that hold the words of two patterns
QuestionsTwo ==
  {Question2("as written", East) \o Space \o Question1("as written", Widget, Boston),
   Question3("as written", Widget, East) \o Space \o Question2("as written", East),
   Question4("as written", JaneDoe, Boston) \o Space \o Question3("as written", Widget, East),
   Question4("as written", JaneDoe, Lit1Pre \o Widget \o LitIn \o Boston),
   Question4("as written", JaneDoe, Boston) \o Space \o Question4("upper", ONeil, NewYork)}
QuestionsOther == {Weather, Hey \o Question1("as written", Widget, Boston), <<>>}

Questions == Questions1 \cup Questions2 \cup Questions3 \cup Questions4 \cup QuestionsTwo \cup QuestionsOther

\* the questions of the requests that are served side by side
ConcurrentQuestions == {Question1("as written", Widget, Boston), Question4("as written", JaneDoe, Boston), Weather}

\* ------------------------------------------------------------------ state
VARIABLES phase, source, df, reqs
vars == <<phase, source, df, reqs>>

None == [tag |-> "none", num |-> 0, text |-> <<>>]
Idle == [st |-> "idle", q |-> <<>>, tried |-> <<>>, template |-> 0, groups |-> <<>>,
         answer |-> None, email |-> "", x_email |-> ""]

Init == /\ phase = "import"
        /\ source \in Sources
        /\ df = <<>>
        /\ reqs = [r \in 1..MaxRequests |-> Idle]

InitEngine == /\ phase = "import"
              /\ source \in Sources
              /\ df = <<>>
              /\ reqs = [r \in {1} |-> Idle]

\* the module-level try/except: only FileNotFoundError is caught; any other
\* exception leaves the import of main, and the process ends
Load == /\ phase = "import"
        /\ LET out == LoadOutcome(source)
           IN IF out.raised = "none" THEN phase' = "serving" /\ df' = out.rows
              ELSE IF out.raised = "FileNotFoundError" THEN phase' = "serving" /\ df' = <<>>
              ELSE phase' = "crashed" /\ df' = <<>>
        /\ UNCHANGED <<source, reqs>>

\* GET /query?q=... reaches the server
Receive(r, q) == /\ phase = "serving"
                 /\ reqs[r].st = "idle"
                 /\ reqs' = [reqs EXCEPT ![r] = [Idle EXCEPT !.st = "pending", !.q = q]]
                 /\ UNCHANGED <<phase, source, df>>

\* handle_query dropping the first row of df as it answers
handle_query_dropping(r) ==
  /\ phase = "serving"
  /\ reqs[r].st = "pending"
  /\ LET out == query_result(reqs[r].q, df)
     IN reqs' = [reqs EXCEPT ![r] = [st |-> "done", q |-> reqs[r].q, tried |-> out.tried,
                                     template |-> out.template, groups |-> out.groups,
                                     answer |-> out.answer, email |-> email_address,
                                     x_email |-> email_address]]
  /\ df' = IF df = <<>> THEN df ELSE Tail(df)
  /\ UNCHANGED <<phase, source>>
\* handle_query: the whole coroutine; it has no await, so it runs in one step
handle_query(r) ==
  /\ phase = "serving"
  /\ reqs[r].st = "pending"
  /\ LET out == query_result(reqs[r].q, df)
     IN reqs' = [reqs EXCEPT ![r] = [st |-> "done", q |-> reqs[r].q, tried |-> out.tried,
                                     template |-> out.template, groups |-> out.groups,
                                     answer |-> out.answer, email |-> email_address,
                                     x_email |-> email_address]]
  /\ UNCHANGED <<phase, source, df>>

Next == \/ Load
        \/ \E r \in DOMAIN reqs, q \in ConcurrentQuestions : Receive(r, q)
        \/ \E r \in DOMAIN reqs : handle_query(r)

NextEngine == \/ Load
              \/ \E q \in Questions : Receive(1, q)
              \/ handle_query(1)

Spec == Init /\ [][Next]_vars
SpecEngine == InitEngine /\ [][NextEngine]_vars

TypeOK == /\ phase \in {"import", "serving", "crashed"}
          /\ source \in Sources
          /\ \A r \in DOMAIN reqs : reqs[r].st \in {"idle", "pending", "done"}

\* ------------------------------------------------------------- properties
Done(r) == reqs[r].st = "done"
\* the request r was answered from a store that holds rows
Answered(r) == Done(r) /\ df # <<>>

Products == {Widget, widget, Gadget}
Cities == {Boston, LowerStr(Boston), NewYork}
WordCities == {Boston, LowerStr(Boston)}
Regions == {East, LowerStr(East), NorthWest}
Reps == {JaneDoe, LowerStr(JaneDoe), ONeil}

\* the groups of pattern k in q
MatchOf(k, q) == CASE k = 1 -> Search2(Pattern1, q)
                   [] k = 2 -> Search1(Pattern2, q)
                   [] k = 3 -> Search2(Pattern3, q)
                   [] k = 4 -> Search2(Pattern4, q)
Matching(q) == {k \in 1..4 : MatchOf(k, q) # NoMatch}
\* the query of pattern k with the groups g over the rows d
AnswerOf(k, g, d) == CASE k = 1 -> TotalSales(d, g[1], g[2])
                       [] k = 2 -> RepCount(d, g[1])
                       [] k = 3 -> AverageSales(d, g[1], g[2])
                       [] k = 4 -> HighestSaleDate(d, g[1], g[2])
\* the answer of pattern k for no rows
DefaultOf(k) == IF k = 4 THEN StrAnswer(NO_SALES_DATA) ELSE IntAnswer(0)
\* the rows of d whose fields are, character for character, the groups g of pattern k
ExactRows(k, g, d) ==
  LET Test(row) == CASE k = 1 -> row.product = g[1] /\ row.city = g[2]
                     [] k = 2 -> row.region = g[1]
                     [] k = 3 -> row.product = g[1] /\ row.region = g[2]
                     [] k = 4 -> row.rep = g[1] /\ row.city = g[2]
  IN SelectSeq(d, Test)

\* C1: a request answered while the store is empty gets the dataset-unavailable
\* answer and no pattern was searched, whatever the question
C1_EmptyStoreUnavailable ==
  \A r \in DOMAIN reqs :
    (Done(r) /\ df = <<>>) =>
      /\ reqs[r].answer = StrAnswer(NOT_LOADED)
      /\ reqs[r].tried = <<>>
      /\ reqs[r].template = 0

\* a question that matches pattern 1 was answered on the empty store
C1_Witness ==
  \E r \in DOMAIN reqs :
    /\ Done(r) /\ df = <<>>
    /\ reqs[r].q = Question1("as written", Widget, Boston)
    /\ reqs[r].answer = StrAnswer(NOT_LOADED)

\* the source cannot be loaded: it is missing, unreadable, malformed, or one of
\* its records has a sales or a date that cannot be coerced
LoadFailure(src) ==
  \/ ~src.exists
  \/ ~src.readable
  \/ ~src.wellformed
  \/ \E i \in 1..Len(src.records) :
       ~to_numeric(src.records[i].sales).ok \/ ~to_datetime(src.records[i].date).ok

\* C2: after loading has ended on a source that cannot be loaded, the process
\* is serving requests and the store is empty
C2_LoadFailureServesEmptyStore ==
  (phase # "import" /\ LoadFailure(source)) => (phase = "serving" /\ df = <<>>)

\* C3: the patterns are searched in the order 1, 2, 3, 4 up to the first that
\* matches, the answer is that pattern's, and the not-understood answer is
\* returned exactly when no pattern matches
C3_FirstMatchWins ==
  \A r \in DOMAIN reqs :
    Answered(r) =>
      LET M == Matching(reqs[r].q)
      IN /\ M = {} => /\ reqs[r].template = 0
                      /\ reqs[r].tried = <<1, 2, 3, 4>>
                      /\ reqs[r].answer = StrAnswer(NOT_UNDERSTOOD)
         /\ M # {} => /\ reqs[r].template = Min(M)
                      /\ reqs[r].tried = [i \in 1..Min(M) |-> i]
                      /\ reqs[r].groups = MatchOf(Min(M), reqs[r].q)
                      /\ reqs[r].answer = AnswerOf(Min(M), reqs[r].groups, df)
                      /\ reqs[r].answer # StrAnswer(NOT_UNDERSTOOD)

\* a question holding the words of pattern 2 and then those of pattern 1 was
\* answered by pattern 1
C3_Witness ==
  \E r \in DOMAIN reqs :
    /\ Answered(r)
    /\ Matching(reqs[r].q) = {1, 2}
    /\ reqs[r].q = Question2("as written", East) \o Space \o Question1("as written", Widget, Boston)
    /\ reqs[r].template = 1
    /\ reqs[r].answer = IntAnswer(350)

\* C4 as stated: the city captured by pattern 4 is made of word characters only
C4_CityWordCharsOnly ==
  \A r \in DOMAIN reqs :
    (Answered(r) /\ reqs[r].template = 4) =>
      \A i \in 1..Len(reqs[r].groups[2]) : reqs[r].groups[2][i] \in WordChars

\* C4 amended: the city captured by pattern 4 is made of word characters and
\* white space, and the question about the city New York is answered by
\* pattern 4's query with New York as the city
C4_CityWordAndSpaceChars ==
  \A r \in DOMAIN reqs :
    Answered(r) =>
      /\ reqs[r].template = 4 =>
           /\ reqs[r].groups[2] # <<>>
           /\ \A i \in 1..Len(reqs[r].groups[2]) : reqs[r].groups[2][i] \in WordChars \cup SpaceChars
      /\ \A v \in Cases, rep \in Reps :
           reqs[r].q = Question4(v, rep, NewYork) =>
             /\ reqs[r].template = 4
             /\ reqs[r].groups = <<rep, NewYork>>
             /\ reqs[r].answer = AnswerOf(4, <<rep, NewYork>>, df)

\* the question about New York was answered with the date of the sale made there
C4_Witness ==
  \E r \in DOMAIN reqs :
    /\ Answered(r)
    /\ reqs[r].q = Question4("as written", ONeil, NewYork)
    /\ \E i \in 1..Len(df) : df[i].city = NewYork /\ df[i].rep = ONeil
    /\ reqs[r].answer = StrAnswer(RecFrac.date)

\* C5: a well-formed question of any of the four patterns whose values match no
\* row is answered with the pattern's default: 0, 0, 0, or the no-sales message
C5_ZeroRowsDefault ==
  \A r \in DOMAIN reqs :
    Answered(r) =>
      \A v \in Cases :
        /\ \A p \in Products, c \in WordCities :
             (/\ reqs[r].q = Question1(v, p, c)
              /\ \A i \in 1..Len(df) : ~(df[i].product = p /\ df[i].city = c))
             => reqs[r].answer = IntAnswer(0)
        /\ \A g \in Regions :
             (/\ reqs[r].q = Question2(v, g)
              /\ \A i \in 1..Len(df) : df[i].region # g)
             => reqs[r].answer = IntAnswer(0)
        /\ \A p \in Products, g \in Regions :
             (/\ reqs[r].q = Question3(v, p, g)
              /\ \A i \in 1..Len(df) : ~(df[i].product = p /\ df[i].region = g))
             => reqs[r].answer = IntAnswer(0)
        /\ \A rep \in Reps, c \in Cities :
             (/\ reqs[r].q = Question4(v, rep, c)
              /\ \A i \in 1..Len(df) : ~(df[i].rep = rep /\ df[i].city = c))
             => reqs[r].answer = StrAnswer(NO_SALES_DATA)

\* the highest-sale question was asked about a rep with no row in the city
C5_Witness ==
  \E r \in DOMAIN reqs :
    /\ Answered(r)
    /\ reqs[r].q = Question4("as written", ONeil, Boston)
    /\ \A i \in 1..Len(df) : ~(df[i].rep = ONeil /\ df[i].city = Boston)
    /\ reqs[r].answer = StrAnswer(NO_SALES_DATA)

\* the rows of df that pattern 4's groups select, by position
RowsOf4(r) == {i \in 1..Len(df) : df[i].rep = reqs[r].groups[1] /\ df[i].city = reqs[r].groups[2]}
\* the first of the rows of I with the largest sales
FirstTop(I) == Min({i \in I : \A j \in I : df[j].sales <= df[i].sales})

\* C6: pattern 4 answers with the date, as the source gives it, of the first row
\* in store order among the selected rows that have the largest sales
C6_FirstMaxRowDate ==
  \A r \in DOMAIN reqs :
    (Answered(r) /\ reqs[r].template = 4 /\ RowsOf4(r) # {}) =>
      reqs[r].answer = StrAnswer(source.records[FirstTop(RowsOf4(r))].date)

\* two selected rows share the largest sales and have different dates
C6_Witness ==
  \E r \in DOMAIN reqs :
    /\ Answered(r) /\ reqs[r].template = 4
    /\ \E i, j \in RowsOf4(r) :
         /\ i < j
         /\ df[i].sales = df[j].sales
         /\ df[i].date # df[j].date
         /\ \A k \in RowsOf4(r) : df[k].sales <= df[i].sales
         /\ reqs[r].answer = StrAnswer(source.records[i].date)

\* C7: the answer of every pattern is computed from the rows whose fields equal
\* the groups character for character, and is the default when there is none
C7_ExactCaseSensitiveFilter ==
  \A r \in DOMAIN reqs :
    (Answered(r) /\ reqs[r].template # 0) =>
      LET exact == ExactRows(reqs[r].template, reqs[r].groups, df)
      IN /\ reqs[r].answer = AnswerOf(reqs[r].template, reqs[r].groups, exact)
         /\ exact = <<>> => reqs[r].answer = DefaultOf(reqs[r].template)

\* the total of widget was asked of a store whose rows are all of Widget in Boston
C7_Witness ==
  \E r \in DOMAIN reqs :
    /\ Answered(r)
    /\ reqs[r].q = Question1("as written", widget, Boston)
    /\ \A i \in 1..Len(df) : df[i].product = Widget /\ df[i].city = Boston
    /\ reqs[r].answer = IntAnswer(0)

\* C8: a question built from a pattern's words and given values selects the same
\* pattern, groups and answer in whichever letter case the words are written
C8_LiteralCaseInsensitive ==
  \A r \in DOMAIN reqs :
    Answered(r) =>
      \A v \in Cases, w \in Cases :
        LET Same(q2) == LET o == answer_question(q2, df)
                        IN /\ o.template = reqs[r].template
                           /\ o.groups = reqs[r].groups
                           /\ o.answer = reqs[r].answer
        IN /\ \A p \in Products, c \in Cities :
                reqs[r].q = Question1(v, p, c) => Same(Question1(w, p, c))
           /\ \A g \in Regions :
                reqs[r].q = Question2(v, g) => Same(Question2(w, g))
           /\ \A p \in Products, g \in Regions :
                reqs[r].q = Question3(v, p, g) => Same(Question3(w, p, g))
           /\ \A rep \in Reps, c \in Cities :
                reqs[r].q = Question4(v, rep, c) => Same(Question4(w, rep, c))

\* the total-sales question in capitals was answered by pattern 1 with the total
C8_Witness ==
  \E r \in DOMAIN reqs :
    /\ Answered(r)
    /\ reqs[r].q = Question1("upper", Widget, Boston)
    /\ reqs[r].template = 1
    /\ reqs[r].groups = <<Widget, Boston>>
    /\ reqs[r].answer.num > 0

RECURSIVE SumWhere(_, _, _)
\* the sum of the sales of the rows of d of the product in the city
SumWhere(d, product, city) ==
  IF d = <<>> THEN 0
  ELSE (IF d[1].product = product /\ d[1].city = city THEN d[1].sales ELSE 0)
       + SumWhere(Tail(d), product, city)

\* C9: pattern 1 answers with the integer that is the sum of the sales of the
\* rows of the product in the city, truncated toward zero; the rows 100 and 250
\* of Widget in Boston give 350
C9_TotalSalesTruncated ==
  \A r \in DOMAIN reqs :
    (Answered(r) /\ reqs[r].template = 1) =>
      LET S == SumWhere(df, reqs[r].groups[1], reqs[r].groups[2])
          n == reqs[r].answer.num
      IN /\ reqs[r].answer.tag = "int"
         /\ S >= 0 => (n * Scale <= S /\ S < (n + 1) * Scale)
         /\ S < 0 => ((n - 1) * Scale < S /\ S <= n * Scale)
         /\ (source.records = <<Rec100, Rec250>> /\ reqs[r].q = Question1("as written", Widget, Boston))
              => reqs[r].answer = IntAnswer(350)

\* the total was asked of rows whose sum is not a whole number
C9_Witness ==
  \E r \in DOMAIN reqs :
    /\ Answered(r) /\ reqs[r].template = 1
    /\ SumWhere(df, reqs[r].groups[1], reqs[r].groups[2]) % Scale # 0
    /\ SumWhere(df, reqs[r].groups[1], reqs[r].groups[2]) > 0

\* C10: while requests are served the store is the one built at startup, every
\* answer given is the answer the question gets on that store alone, and the
\* same question asked twice got the same answer
C10_StoreNeverChanges ==
  phase = "serving" =>
    LET built == LoadOutcome(source)
    IN /\ df = (IF built.raised = "none" THEN built.rows ELSE <<>>)
       /\ \A r \in DOMAIN reqs :
            Done(r) => reqs[r].answer = query_result(reqs[r].q, built.rows).answer
       /\ \A r1, r2 \in DOMAIN reqs :
            (Done(r1) /\ Done(r2) /\ reqs[r1].q = reqs[r2].q) => reqs[r1].answer = reqs[r2].answer

\* two requests with the same question were both answered from a store with rows
C10_Witness ==
  \E r1, r2 \in DOMAIN reqs :
    /\ r1 # r2
    /\ Answered(r1) /\ Answered(r2)
    /\ reqs[r1].q = reqs[r2].q
    /\ reqs[r1].template = 4
    /\ reqs[r1].answer = reqs[r2].answer
====
